---- MODULE Spec2Model ----
(***************************************************************************)
(* A model of terra_package: the three public operations of core.py        *)
(* (analyze_network, analyze_basket, simulate_shock) acting on one         *)
(* TerraDataset object, and calculate_node_metrics of metrics.py.          *)
(*                                                                         *)
(* A DataFrame is a sequence of row records, in row order.  Floating-point *)
(* numbers are modelled as exact rationals <<numerator, denominator>> in   *)
(* lowest terms with a positive denominator; the IEEE results of a         *)
(* division by zero are <<1, 0>> (inf), <<-1, 0>> (-inf) and <<0, 0>>      *)
(* (nan).  Every dataset modelled carries the 'weight' column that         *)
(* analyze_network and analyze_basket read.                                *)
(* Closeness, betweenness and distinctiveness are computed by external     *)
(* libraries (networkx, distinctiveness) and are not part of the records   *)
(* modelled here.                                                          *)
(***************************************************************************)
EXTENDS Integers, Sequences, FiniteSets, TLC

VARIABLES
    data0,       \* the rows of df.data as the TerraDataset constructor left them
    data,        \* the rows of df.data now (TerraDataset.data, utils.py:54)
    simulation,  \* df.simulation, <<>> while the attribute is not set (core.py:207)
    last         \* the call the caller is looking at: operation, arguments, error
                 \* raised and value returned; NoCall between two calls

vars == <<data0, data, simulation, last>>

----------------------------------------------------------------------------
(* Bounds of the model *)

\* number of periods a dataset may span (the periods are 2020, 2021, ...)
NumPeriods == 2
\* largest entry of the 'weight' column
MaxWeight == 2
\* largest entry of the 'value' and 'value2' columns
MaxValue == 2
\* rows of a general dataset
MaxRows == 2
\* rows of a one-flow time series dataset
MaxSeries == 3
\* rows of an import basket dataset
MaxBasket == 3
\* edges of a graph handed to calculate_node_metrics directly
MaxEdges == 2
\* largest qty attribute of such an edge
MaxQty == 2

Countries == {"A", "B", "C"}
Products == {"P1", "P2"}
Periods == 2020 .. (2019 + NumPeriods)
\* the Python value None, for an optional string argument
None == "None"

\* what a call raised: NoError when it returned, else the exception's type, the check
\* that raised it and the value its message names
NoError == [type |-> "none"]
Error(type, what, value) == [type |-> type, what |-> what, value |-> value]

----------------------------------------------------------------------------
(* Exact rational arithmetic, standing for Python / numpy float arithmetic *)

Abs(x) == IF x < 0 THEN -x ELSE x

RECURSIVE GCD(_, _)
GCD(a, b) == IF b = 0 THEN a ELSE GCD(b, a % b)

\* the fraction n/d (d # 0) in lowest terms with positive denominator
Frac(n, d) ==
    LET g == GCD(Abs(n), Abs(d))
        s == IF d < 0 THEN -1 ELSE 1
    IN  <<(s * n) \div g, (s * d) \div g>>

FInt(n) == <<n, 1>>
FZero == <<0, 1>>
FOne == <<1, 1>>
FAdd(x, y) == Frac(x[1] * y[2] + y[1] * x[2], x[2] * y[2])
FSub(x, y) == Frac(x[1] * y[2] - y[1] * x[2], x[2] * y[2])
FMul(x, y) == Frac(x[1] * y[1], x[2] * y[2])
\* x / y for y # 0
FDiv(x, y) == Frac(x[1] * y[2], x[2] * y[1])
FLeq(x, y) == x[1] * y[2] <= y[1] * x[2]

\* x ** k for an integer k (x # 0 when k < 0)
RECURSIVE FPow(_, _)
FPow(x, k) ==
    IF k = 0 THEN FOne
    ELSE IF k < 0 THEN FDiv(FOne, FPow(x, -k))
    ELSE FMul(x, FPow(x, k - 1))

\* sum of a sequence of fractions (pandas Series.sum, Python sum)
RECURSIVE FSum(_)
FSum(s) == IF s = <<>> THEN FZero ELSE FAdd(s[1], FSum(Tail(s)))

\* the subsequence of s of the elements satisfying Test (boolean indexing df[mask])
Filter(s, Test(_)) == SelectSeq(s, Test)

\* [f(s[1]), ..., f(s[n])]
MapSeq(s, f(_)) == [i \in 1..Len(s) |-> f(s[i])]

\* the elements of a finite set of integers in ascending order (sorted(...))
RECURSIVE SortedSeq(_)
SortedSeq(S) ==
    IF S = {} THEN <<>>
    ELSE LET m == CHOOSE x \in S : \A y \in S : x <= y
         IN  <<m>> \o SortedSeq(S \ {m})

----------------------------------------------------------------------------
(* networkx graphs.  A graph is [directed, nodes, edges]: nodes in insertion *)
(* order, edges a sequence of [u, v, d] with d the edge's attribute dict, a  *)
(* function from attribute names to rationals.                               *)

EmptyGraph(directed) == [directed |-> directed, nodes |-> <<>>, edges |-> <<>>]

SeqToSet(s) == {s[i] : i \in 1..Len(s)}

\* whether edge e joins u to v in a graph of the given kind
SameEdge(directed, e, u, v) ==
    \/ e.u = u /\ e.v = v
    \/ ~directed /\ e.u = v /\ e.v = u

\* G.add_edge(u, v) followed by G[u][v].update(attrs): a new edge is appended,
\* an existing one keeps its place and has its attributes overwritten
AddEdge(G, u, v, attrs) ==
    LET n1 == IF u \in SeqToSet(G.nodes) THEN G.nodes ELSE Append(G.nodes, u)
        n2 == IF v \in SeqToSet(n1) THEN n1 ELSE Append(n1, v)
        present == \E i \in 1..Len(G.edges) : SameEdge(G.directed, G.edges[i], u, v)
        upd(e) == IF SameEdge(G.directed, e, u, v)
                  THEN [e EXCEPT !.d = [k \in DOMAIN e.d \cup DOMAIN attrs |->
                                           IF k \in DOMAIN attrs THEN attrs[k] ELSE e.d[k]]]
                  ELSE e
    IN  [directed |-> G.directed,
         nodes |-> n2,
         edges |-> IF present THEN MapSeq(G.edges, upd)
                   ELSE Append(G.edges, [u |-> u, v |-> v, d |-> attrs])]

\* d.get(key, 0)
Get(d, key) == IF key \in DOMAIN d THEN d[key] ELSE FZero

\* sum(d.get("qty", 0) for _, _, d in G.edges(data=True))
TotalWeight(G) == FSum(MapSeq(G.edges, LAMBDA e : Get(e.d, "qty")))

\* the normalisation forgotten: the raw qty is stored as the weight
NormalWeightRaw(d, total_weight) == Get(d, "qty")

\* the value stored in d["weight"] by the normalisation loop
NormalWeight(d, total_weight) ==
    IF total_weight[1] > 0 THEN FDiv(Get(d, "qty"), total_weight) ELSE FZero

\* the graph after the loop that sets d["weight"] on every edge, in place
Normalized(G) ==
    LET total_weight == TotalWeight(G)
        set(e) == [e EXCEPT !.d = [k \in DOMAIN e.d \cup {"weight"} |->
                      IF k = "weight" THEN NormalWeight(e.d, total_weight) ELSE e.d[k]]]
    IN  [G EXCEPT !.edges = MapSeq(G.edges, set)]

\* G.out_degree(weight="weight")[n] and G.in_degree(weight="weight")[n] of a DiGraph
OutDegree(G, n) ==
    FSum(MapSeq(Filter(G.edges, LAMBDA e : e.u = n), LAMBDA e : Get(e.d, "weight")))

InDegree(G, n) ==
    FSum(MapSeq(Filter(G.edges, LAMBDA e : e.v = n), LAMBDA e : Get(e.d, "weight")))

\* G.degree(weight="weight")[n]: in-degree plus out-degree for a DiGraph; for a
\* Graph the weights of the incident edges, a self-loop counted twice
Degree(G, n) == FAdd(OutDegree(G, n), InDegree(G, n))

\* vulnerability[k] for an in-degree v that is a number
Vulnerability(v) == IF v # FZero THEN FSub(FOne, v) ELSE FZero

\* calculate_node_metrics(G, period): the graph as the call leaves it, the error
\* raised ("none" when it returns) and the records of the returned DataFrame
CalculateNodeMetrics(G, period) ==
    LET N == Normalized(G)
        rec(n) == [Period |-> period, Node |-> n,
                   Degree |-> Degree(N, n),
                   OutDegree |-> OutDegree(N, n),
                   InDegree |-> InDegree(N, n),
                   Vulnerability |-> Vulnerability(InDegree(N, n))]
    IN  IF ~G.directed /\ G.nodes # <<>>
        THEN \* in_deg[n] is None: 1 - None raises TypeError
             [G |-> N, err |-> Error("TypeError", "in_deg", None), out |-> <<>>]
        ELSE [G |-> N, err |-> NoError, out |-> MapSeq(N.nodes, rec)]

----------------------------------------------------------------------------
(* pandas values *)

NaN == <<0, 0>>
Inf == <<1, 0>>
NegInf == <<-1, 0>>
IsFinite(x) == x[2] # 0

\* x / y on float64 Series: a zero divisor gives inf, -inf or nan, and nan propagates
FloatDiv(x, y) ==
    IF x = NaN \/ y = NaN THEN NaN
    ELSE IF y[1] = 0 THEN (IF x[1] > 0 THEN Inf ELSE IF x[1] < 0 THEN NegInf ELSE NaN)
    ELSE FDiv(x, y)

\* x - y on float64 Series
FloatSub(x, y) == IF x = NaN \/ y = NaN THEN NaN ELSE FSub(x, y)

\* bool(s) of an optional string argument
Truthy(s) == s # None /\ s # ""

----------------------------------------------------------------------------
(* analyze_network *)

\* nx.from_pandas_edgelist(df_p, 'source', 'target', edge_attr='weight',
\* create_using=nx.DiGraph()): one add_edge per row, in row order
RECURSIVE FromPandasEdgelist(_, _)
FromPandasEdgelist(rows, G) ==
    IF rows = <<>> THEN G
    ELSE FromPandasEdgelist(Tail(rows),
             AddEdge(G, rows[1].source, rows[1].target, [weight |-> FInt(rows[1].weight)]))

\* sorted(df['period'].unique())
PeriodsOf(rows) == SortedSeq({rows[i].period : i \in 1..Len(rows)})

\* the graph G_p built for period p
PeriodGraph(rows, p) ==
    FromPandasEdgelist(Filter(rows, LAMBDA r : r.period = p), EmptyGraph(TRUE))

\* pd.concat of the per-period metrics, in period order
RECURSIVE ConcatMetrics(_, _)
ConcatMetrics(rows, ps) ==
    IF ps = <<>> THEN <<>>
    ELSE CalculateNodeMetrics(PeriodGraph(rows, ps[1]), ps[1]).out \o ConcatMetrics(rows, Tail(ps))

\* analyze_network(df) on a dataset with the given rows: error and returned table
AnalyzeNetworkResult(rows) ==
    IF rows = <<>>
    THEN [err |-> Error("ValueError", "concat", ""), out |-> <<>>]
    ELSE [err |-> NoError, out |-> ConcatMetrics(rows, PeriodsOf(rows))]

----------------------------------------------------------------------------
(* analyze_basket *)

\* df.loc[:, ['source', 'target']] = df[['target', 'source']].values
SwapRow(r) == [r EXCEPT !.source = r.target, !.target = r.source]
Swapped(rows) == MapSeq(rows, SwapRow)

\* df.data after the direction branch (core.py:97-99): df is df.data itself, so the
\* assignment through .loc writes the dataset's own rows
AfterDirection(rows, direction) == IF direction = "I" THEN Swapped(rows) ELSE rows

\* the 'period' and 'weight' columns of the rows, the weights as floats
PeriodWeight(rows) ==
    MapSeq(rows, LAMBDA r : [period |-> r.period, weight |-> FInt(r.weight)])

\* tab.groupby(['period'], as_index=False)['weight'].sum(): one row per period, ascending
GroupByPeriod(tab) ==
    LET w(p) == FSum(MapSeq(Filter(tab, LAMBDA r : r.period = p), LAMBDA r : r.weight))
    IN  MapSeq(PeriodsOf(tab), LAMBDA p : [period |-> p, weight |-> w(p)])

\* the lag taken from the first period instead of the preceding one
WeightLagFirst(agg, i) == agg[1].weight

\* df["weight"].shift(1)[i]
WeightLag(agg, i) == IF i = 1 THEN NaN ELSE agg[i - 1].weight

\* the var=True branch (core.py:115-117): the table grouped and sorted by period again,
\* then each weight replaced by its change relative to the lagged weight
Variation(df) ==
    LET agg == GroupByPeriod(df)
    IN
    [i \in 1..Len(agg) |->
        [period |-> agg[i].period,
         weight |-> FloatDiv(FloatSub(agg[i].weight, WeightLag(agg, i)), WeightLag(agg, i))]]

\* the partner filter applied before the product filter
BasketStagePartnerFirst(rows, country, partner, product) ==
    LET s1 == Filter(rows, LAMBDA r : r.source = country)
        s2 == IF Truthy(partner) THEN Filter(s1, LAMBDA r : r.target = partner) ELSE s1
        s3 == IF Truthy(product) THEN Filter(s2, LAMBDA r : r.product = product) ELSE s2
    IN  IF s1 = <<>> THEN "Country"
        ELSE IF s2 = <<>> THEN "Partner"
        ELSE IF s3 = <<>> THEN "Product"
        ELSE ""

\* the first filter stage that raises, "" when none does (core.py:100-110)
BasketStage(rows, country, partner, product) ==
    LET s1 == Filter(rows, LAMBDA r : r.source = country)
        s2 == IF Truthy(product) THEN Filter(s1, LAMBDA r : r.product = product) ELSE s1
        s3 == IF Truthy(partner) THEN Filter(s2, LAMBDA r : r.target = partner) ELSE s2
    IN  IF s1 = <<>> THEN "Country"
        ELSE IF s2 = <<>> THEN "Product"
        ELSE IF s3 = <<>> THEN "Partner"
        ELSE ""

\* the rows left by the three filters, applied one after the other
BasketRows(rows, country, partner, product) ==
    LET s1 == Filter(rows, LAMBDA r : r.source = country)
        s2 == IF Truthy(product) THEN Filter(s1, LAMBDA r : r.product = product) ELSE s1
    IN  IF Truthy(partner) THEN Filter(s2, LAMBDA r : r.target = partner) ELSE s2

\* analyze_basket(df, country, partner, product, var, direction) when df.data holds
\* `rows`: the rows of df.data afterwards, the error raised and the returned table
AnalyzeBasketResult(rows, country, partner, product, var, direction) ==
    IF direction \notin {"E", "I"}
    THEN [data |-> rows, err |-> Error("ValueError", "Direction", direction), out |-> <<>>]
    ELSE
      LET df == AfterDirection(rows, direction)
          stage == BasketStage(df, country, partner, product)
          value == CASE stage = "Country" -> country
                     [] stage = "Product" -> product
                     [] stage = "Partner" -> partner
                     [] OTHER -> ""
          agg == GroupByPeriod(PeriodWeight(BasketRows(df, country, partner, product)))
      IN  IF stage # ""
          THEN [data |-> df, err |-> Error("ValueError", stage, value), out |-> <<>>]
          ELSE [data |-> df, err |-> NoError, out |-> IF var THEN Variation(agg) ELSE agg]

----------------------------------------------------------------------------
(* simulate_shock.  value and value2 are positive in every dataset modelled, *)
(* so every price is a positive rational.                                    *)

\* x ** (1 / (1 - sigma)): exact for the sigma with 1 - sigma in {1, -1}
RootPow(x, sigma) == FPow(x, 1 \div (1 - sigma))

\* df_shock["value"] / df_shock["value2"]
Price(r) == FDiv(FInt(r.value), FInt(r.value2))

\* the shock not applied: every alpha kept
ShockedAlphaNotApplied(alpha, source, country_from) == alpha

\* alpha of a row after df_shock.loc[df_shock.source == country_from, "alpha"] = 0
ShockedAlpha(alpha, source, country_from) ==
    IF source = country_from THEN FZero ELSE alpha

\* the table assigned to df.simulation (core.py:182-207) for the basket rows `basket`
ShockTable(basket, country_from, sigma) ==
    LET n == Len(basket)
        price == [i \in 1..n |-> Price(basket[i])]
        raw == [i \in 1..n |-> FMul(FInt(basket[i].value2), FPow(price[i], sigma - 1))]
        alpha == [i \in 1..n |-> FDiv(raw[i], FSum(raw))]
        Q_tot == FSum([i \in 1..n |-> FInt(basket[i].value2)])
        weight == [i \in 1..n |-> FMul(alpha[i], FPow(price[i], 1 - sigma))]
        share_base == [i \in 1..n |-> FDiv(weight[i], FSum(weight))]
        P == RootPow(FSum(weight), sigma)
        E == FMul(P, Q_tot)
        q_base == [i \in 1..n |-> FDiv(FMul(share_base[i], E), price[i])]
        alpha2 == [i \in 1..n |-> ShockedAlpha(alpha[i], basket[i].source, country_from)]
        weight2 == [i \in 1..n |-> FMul(alpha2[i], FPow(price[i], 1 - sigma))]
        share_post == [i \in 1..n |->
                         IF FSum(weight2) # FZero THEN FDiv(weight2[i], FSum(weight2))
                         ELSE FZero]
        P_new == RootPow(FSum(weight2), sigma)
        E_new == FMul(P_new, Q_tot)
        q_new == [i \in 1..n |->
                    IF price[i] # FZero THEN FDiv(FMul(share_post[i], E_new), price[i])
                    ELSE FZero]
    IN  [i \in 1..n |->
           [source |-> basket[i].source, target |-> basket[i].target,
            period |-> basket[i].period, product |-> basket[i].product,
            value |-> basket[i].value, value2 |-> basket[i].value2,
            price |-> price[i], alpha |-> alpha2[i],
            share_base |-> share_base[i], share_post |-> share_post[i],
            q_base |-> q_base[i], q_new |-> q_new[i],
            q_delta |-> FSub(q_new[i], q_base[i])]]

\* simulate_shock(df, country_from, country_to, period, product, sigma) on the rows of
\* df.data: the error raised and the table attached as df.simulation
SimulateShockResult(rows, country_from, country_to, period, product, sigma) ==
    LET sel == Filter(rows, LAMBDA r : r.period = period)
        \* line 173: the product filter; line 177 groups and discards the result
        d == IF Truthy(product) THEN Filter(sel, LAMBDA r : r.product = product) ELSE sel
        others == Filter(d, LAMBDA r : r.source # country_from /\ r.target = country_to)
        df_shock == Filter(d, LAMBDA r : r.target = country_to)
    IN  IF sel = <<>>
        THEN [err |-> Error("ValueError", "Period", ToString(period)), out |-> <<>>]
        ELSE IF Truthy(product)
        THEN \* line 174 reads df.empty of the TerraDataset, which has no such attribute
             [err |-> Error("AttributeError", "empty", product), out |-> <<>>]
        ELSE IF others = <<>>
        THEN [err |-> Error("ValueError", "Supplier", country_from), out |-> <<>>]
        ELSE IF sigma = 1
        THEN \* line 190: 1 / (1 - sigma) divides by zero
             [err |-> Error("ZeroDivisionError", "sigma", ToString(sigma)), out |-> <<>>]
        ELSE [err |-> NoError, out |-> ShockTable(df_shock, country_from, sigma)]

----------------------------------------------------------------------------
(* Datasets: df.data of a TerraDataset after validation (utils.py:103-145):  *)
(* numeric value columns and no two rows with the same                       *)
(* (source, target, period, product).                                        *)

Row(s, t, p, pr, v, v2, w) ==
    [source |-> s, target |-> t, period |-> p, product |-> pr,
     value |-> v, value2 |-> v2, weight |-> w]

KeyOf(r) == <<r.source, r.target, r.period, r.product>>

UniqueKeys(rows) ==
    \A i, j \in 1..Len(rows) : i # j => KeyOf(rows[i]) # KeyOf(rows[j])

\* the sequences of exactly k rows of R that pass the duplicate check, built row by row
RECURSIVE UniqueRowsOfLen(_, _)
UniqueRowsOfLen(R, k) ==
    IF k = 0 THEN {<<>>}
    ELSE {rows \in {Append(d, r) : d \in UniqueRowsOfLen(R, k - 1), r \in R} :
             UniqueKeys(rows)}

\* the non-empty sequences of at most n rows of R that pass the duplicate check
DatasetsOver(R, n) == UNION {UniqueRowsOfLen(R, k) : k \in 1..n}

\* flows between A and B, unit values, weights from 1
SmallRows ==
    {r \in {Row(s, t, p, pr, 1, 1, w) :
                s \in {"A", "B"}, t \in {"A", "B"}, p \in Periods, pr \in Products,
                w \in 1..MaxWeight} : r.source # r.target}

\* flows between distinct countries in two periods, unit weights and values
FlowPeriods == {2020, 2021}
FlowRows ==
    {r \in {Row(s, t, p, pr, 1, 1, 1) :
                s \in Countries, t \in Countries, p \in FlowPeriods, pr \in Products} :
        r.source # r.target}

\* flow files list their rows by source, target, period and product
FlowRank(r) ==
    LET CountryIndex(c) == CHOOSE i \in 1..3 : <<"A", "B", "C">>[i] = c
    IN  ((CountryIndex(r.source) * 3 + CountryIndex(r.target)) * 2 + (r.period - 2020)) * 2
        + (IF r.product = "P1" THEN 0 ELSE 1)

FlowSorted(rows) ==
    \A i \in 1..(Len(rows) - 1) : FlowRank(rows[i]) < FlowRank(rows[i + 1])

RECURSIVE FlowRowsOfLen(_)
FlowRowsOfLen(k) ==
    IF k = 0 THEN {<<>>}
    ELSE {rows \in {Append(d, r) : d \in FlowRowsOfLen(k - 1), r \in FlowRows} :
             UniqueKeys(rows) /\ FlowSorted(rows)}

FlowDatasets == UNION {FlowRowsOfLen(k) : k \in 1..MaxRows}

\* one flow observed over several periods with varying weight
SeriesPeriods == 2020 .. (2019 + MaxSeries)
SeriesRows ==
    {Row("A", "B", p, "P1", 1, 1, w) : p \in SeriesPeriods, w \in 0..MaxWeight}

\* the import basket of C in one period, values and quantities varying,
\* value and quantity of a row together at most MaxValue + 1
ImportRows ==
    {r \in {Row(s, "C", 2020, pr, v, v2, 1) :
                s \in {"A", "B"}, pr \in Products, v \in 1..MaxValue, v2 \in 1..MaxValue} :
        r.value + r.value2 <= MaxValue + 1}

\* import basket files list their rows by source, then product
ImportOrder(r) ==
    <<CHOOSE i \in 1..2 : <<"A", "B">>[i] = r.source,
      CHOOSE i \in 1..2 : <<"P1", "P2">>[i] = r.product>>

ImportSorted(rows) ==
    \A i, j \in 1..Len(rows) :
        i < j => \/ ImportOrder(rows[i])[1] < ImportOrder(rows[j])[1]
                 \/ /\ ImportOrder(rows[i])[1] = ImportOrder(rows[j])[1]
                    /\ ImportOrder(rows[i])[2] < ImportOrder(rows[j])[2]

RECURSIVE ImportRowsOfLen(_)
ImportRowsOfLen(k) ==
    IF k = 0 THEN {<<>>}
    ELSE {rows \in {Append(d, r) : d \in ImportRowsOfLen(k - 1), r \in ImportRows} :
             UniqueKeys(rows) /\ ImportSorted(rows)}

ImportDatasets == UNION {ImportRowsOfLen(k) : k \in 1..MaxBasket}

----------------------------------------------------------------------------
(* The state machine: one TerraDataset object and the calls made on it *)

Sigmas == {1, 2}
OptionalCountries == Countries \cup {None}
OptionalProducts == Products \cup {None}

NoCall == [op |-> "none"]

InitWith(D) ==
    /\ data0 \in D
    /\ data = data0
    /\ simulation = <<>>
    /\ last = NoCall

\* analyze_network(df)
AnalyzeNetwork ==
    /\ last = NoCall
    /\ \E res \in {AnalyzeNetworkResult(data)} :
          last' = [op |-> "analyze_network", err |-> res.err, out |-> res.out]
    /\ UNCHANGED <<data0, data, simulation>>

\* analyze_basket(df, country, partner, product, var, direction)
AnalyzeBasket ==
    /\ last = NoCall
    /\ \E country \in Countries, partner \in OptionalCountries, product \in OptionalProducts,
          var \in BOOLEAN, direction \in {"E", "I"} :
          \E res \in {AnalyzeBasketResult(data, country, partner, product, var, direction)} :
              /\ data' = res.data
              /\ last' = [op |-> "analyze_basket",
                          country |-> country, partner |-> partner, product |-> product,
                          var |-> var, direction |-> direction,
                          err |-> res.err, out |-> res.out]
    /\ UNCHANGED <<data0, simulation>>

\* simulate_shock(df, country_from, country_to, period, product, sigma)
SimulateShock ==
    /\ last = NoCall
    /\ \E country_from \in Countries, country_to \in Countries, period \in Periods,
          product \in OptionalProducts, sigma \in Sigmas :
          \E res \in {SimulateShockResult(data, country_from, country_to, period,
                                          product, sigma)} :
              /\ simulation' = IF res.err = NoError THEN res.out ELSE simulation
              /\ last' = [op |-> "simulate_shock",
                          country_from |-> country_from, country_to |-> country_to,
                          period |-> period, product |-> product, sigma |-> sigma,
                          err |-> res.err, out |-> res.out]
    /\ UNCHANGED <<data0, data>>

\* the graphs a caller may build with add_edge: at most MaxEdges calls, each with an
\* optional qty attribute
EdgeCalls ==
    {[u |-> u, v |-> v, d |-> d] :
        u \in Countries, v \in Countries,
        d \in {<<>>} \cup {[qty |-> FInt(q)] : q \in 0..MaxQty}}

RECURSIVE GraphOf(_, _)
GraphOf(calls, G) ==
    IF calls = <<>> THEN G
    ELSE GraphOf(Tail(calls), AddEdge(G, calls[1].u, calls[1].v, calls[1].d))

\* calculate_node_metrics(G, period), called directly
CalculateNodeMetricsCall ==
    /\ last = NoCall
    /\ \E directed \in BOOLEAN, calls \in UNION {[1..k -> EdgeCalls] : k \in 1..MaxEdges} :
          \E G \in {GraphOf(calls, EmptyGraph(directed))} :
              \E res \in {CalculateNodeMetrics(G, 2020)} :
                  last' = [op |-> "calculate_node_metrics", G |-> G, after |-> res.G,
                           err |-> res.err, out |-> res.out]
    /\ UNCHANGED <<data0, data, simulation>>

\* the caller takes the result (or catches the error) and goes on to its next call
Return ==
    /\ last # NoCall
    /\ last' = NoCall
    /\ UNCHANGED <<data0, data, simulation>>

\* the package as a whole, on a small dataset
Init == InitWith(DatasetsOver(SmallRows, MaxRows))
Next == AnalyzeNetwork \/ AnalyzeBasket \/ SimulateShock \/ Return
Spec == Init /\ [][Next]_vars

\* the basket and network operations, on flows among three countries and on time series
InitBasket == InitWith(FlowDatasets \cup DatasetsOver(SeriesRows, MaxSeries))
NextBasket == AnalyzeBasket \/ AnalyzeNetwork \/ Return
SpecBasket == InitBasket /\ [][NextBasket]_vars

\* the shock simulation, on import baskets with varying prices
InitShock == InitWith(ImportDatasets)
NextShock == SimulateShock \/ Return
SpecShock == InitShock /\ [][NextShock]_vars

\* calculate_node_metrics on graphs built by the caller; no dataset is involved
InitMetrics == data0 = <<>> /\ data = <<>> /\ simulation = <<>> /\ last = NoCall
NextMetrics == CalculateNodeMetricsCall \/ Return
SpecMetrics == InitMetrics /\ [][NextMetrics]_vars

----------------------------------------------------------------------------
(* Properties *)

\* sum of a sequence of integers
RECURSIVE IntSum(_)
IntSum(s) == IF s = <<>> THEN 0 ELSE s[1] + IntSum(Tail(s))

\* sum of the 'weight' column over a set of rows
RECURSIVE SetWeight(_)
SetWeight(S) ==
    IF S = {} THEN 0
    ELSE LET r == CHOOSE x \in S : TRUE IN r.weight + SetWeight(S \ {r})

IsCall(op) == last # NoCall /\ last.op = op

\* C1: analyze_network takes each period's edge quantities from the 'weight' column:
\* in every period whose weights have a positive total the normalised edge weights sum
\* to 1, so the out-degrees of the period's records sum to 1, the in-degrees sum to 1,
\* and a node's Degree is its out-degree plus its in-degree (1.0 for A in the example
\* rows A->B 10, B->A 5).
C1_EdgeWeightsFromWeightColumn ==
    IsCall("analyze_network") =>
        \A p \in {data[i].period : i \in 1..Len(data)} :
            LET total == IntSum([i \in 1..Len(data) |->
                                    IF data[i].period = p THEN data[i].weight ELSE 0])
                recs == Filter(last.out, LAMBDA r : r.Period = p)
            IN  total > 0 =>
                  /\ FSum(MapSeq(recs, LAMBDA r : r.OutDegree)) = FOne
                  /\ FSum(MapSeq(recs, LAMBDA r : r.InDegree)) = FOne
                  /\ \A i \in 1..Len(recs) :
                        recs[i].Degree = FAdd(recs[i].OutDegree, recs[i].InDegree)

\* C2: no analyze_basket call, in either direction, returning or raising, changes the
\* rows of the dataset: they stay what the constructor left.
C2_DatasetRowsUnchanged == data = data0

\* C3: the result of analyze_network and of analyze_basket does not depend on the calls
\* made before: it is the result the same call gives on the dataset as constructed.
C3_ResultsIndependentOfHistory ==
    /\ IsCall("analyze_network") =>
          LET r == AnalyzeNetworkResult(data0)
          IN  last.err = r.err /\ last.out = r.out
    /\ IsCall("analyze_basket") =>
          LET r == AnalyzeBasketResult(data0, last.country, last.partner, last.product,
                                       last.var, last.direction)
          IN  last.err = r.err /\ last.out = r.out

\* the rows of the selected period, and of the product when one is given
ShockSelection(rows, period, product) ==
    {r \in SeqToSet(rows) : r.period = period /\ (Truthy(product) => r.product = product)}

\* C4: simulate_shock with a product raises ValueError when the selected period has no
\* row of that product, and otherwise the product filter raises nothing: the call goes
\* on to the supplier check and the simulation.
C4_ProductFilterValidation ==
    (/\ IsCall("simulate_shock")
     /\ Truthy(last.product)
     /\ ShockSelection(data, last.period, None) # {}) =>
        IF ShockSelection(data, last.period, last.product) = {}
        THEN last.err.type = "ValueError"
        ELSE \/ last.err = NoError
             \/ last.err.what \in {"Supplier", "sigma"}

\* C5: simulate_shock (with sigma # 1, as its callers must pass) raises a validation
\* error exactly when the selected rows hold no row with target == country_to and
\* source # country_from; when they hold one, the call raises nothing and attaches a
\* simulation result.
C5_SoleSupplierValidation ==
    (IsCall("simulate_shock") /\ last.sigma # 1) =>
        LET others == {r \in ShockSelection(data, last.period, last.product) :
                          r.target = last.country_to /\ r.source # last.country_from}
        IN  /\ others = {} <=> last.err.type = "ValueError"
            /\ others # {} =>
                  /\ last.err = NoError
                  /\ simulation # <<>>
                  /\ simulation = last.out

\* C6: in every successful simulation the q_base of the result rows sum to
\* Q_total = sum of value2, and so do the q_new.
C6_ShockConservation ==
    (IsCall("simulate_shock") /\ last.err = NoError) =>
        LET Q_total == FInt(IntSum(MapSeq(last.out, LAMBDA r : r.value2)))
        IN  /\ FSum(MapSeq(last.out, LAMBDA r : r.q_base)) = Q_total
            /\ FSum(MapSeq(last.out, LAMBDA r : r.q_new)) = Q_total

\* C7: in every successful simulation each row of country_from has alpha = 0,
\* share_post = 0 and q_new = 0, and the q_delta of the other rows sum to at least 0.
C7_ShockMonotonicity ==
    (IsCall("simulate_shock") /\ last.err = NoError) =>
        /\ \A i \in 1..Len(last.out) :
              last.out[i].source = last.country_from =>
                  /\ last.out[i].alpha = FZero
                  /\ last.out[i].share_post = FZero
                  /\ last.out[i].q_new = FZero
        /\ FLeq(FZero, FSum(MapSeq(Filter(last.out, LAMBDA r : r.source # last.country_from),
                                   LAMBDA r : r.q_delta)))

\* C7 happens: country_from has two rows in the basket and the others gain quantity
C7_Witness ==
    /\ IsCall("simulate_shock") /\ last.err = NoError
    /\ Len(Filter(last.out, LAMBDA r : r.source = last.country_from)) = 2
    /\ \E i \in 1..Len(last.out) :
          last.out[i].source # last.country_from /\ last.out[i].q_delta[1] > 0

\* the qty of an edge, 0 when the attribute is absent, as an integer
QtyOf(e) == IF "qty" \in DOMAIN e.d THEN e.d.qty[1] ELSE 0

WorkingSet(rows, direction) ==
    {IF direction = "I"
     THEN [r EXCEPT !.source = r.target, !.target = r.source]
     ELSE r : r \in SeqToSet(rows)}

\* what C9 says of a call `c` made on `rows`
C9_Holds(rows, c) ==
    LET W == WorkingSet(rows, c.direction)
        S1 == {r \in W : r.source = c.country}
        S2 == IF Truthy(c.product) THEN {r \in S1 : r.product = c.product} ELSE S1
        S3 == IF Truthy(c.partner) THEN {r \in S2 : r.target = c.partner} ELSE S2
    IN  /\ S1 = {} => c.err = Error("ValueError", "Country", c.country)
        /\ (S1 # {} /\ S2 = {}) => c.err = Error("ValueError", "Product", c.product)
        /\ (S2 # {} /\ S3 = {}) => c.err = Error("ValueError", "Partner", c.partner)
        /\ S3 # {} => c.err = NoError

\* C9: analyze_basket filters by source == country, then product, then partner; it
\* raises ValueError exactly when a stage empties the working set, the error naming the
\* first such stage and the value used, and raises nothing when no stage does.
C9_FilterStageErrors ==
    [][(last = NoCall /\ last' # NoCall /\ last'.op = "analyze_basket")
        => C9_Holds(data, last')]_vars

\* C9 happens: a direction "I" call passes the country and product stages and is
\* emptied by the partner stage
C9_Witness ==
    /\ IsCall("analyze_basket")
    /\ last.direction = "I" /\ Truthy(last.product)
    /\ last.err = Error("ValueError", "Partner", last.partner)

\* what C10 says of a call `c` made on `rows`
C10_Holds(rows, c) ==
    LET F == {r \in WorkingSet(rows, c.direction) :
                 /\ r.source = c.country
                 /\ Truthy(c.product) => r.product = c.product
                 /\ Truthy(c.partner) => r.target = c.partner}
        w(p) == SetWeight({r \in F : r.period = p})
        out == c.out
    IN  (c.var /\ F # {}) =>
          /\ c.err = NoError
          /\ Len(out) = Cardinality({r.period : r \in F})
          /\ \A i \in 1..Len(out) : out[i].period \in {r.period : r \in F}
          /\ \A i, j \in 1..Len(out) : i < j => out[i].period < out[j].period
          /\ out[1].weight = NaN
          /\ \A i \in 2..Len(out) :
                LET prev == w(out[i - 1].period)
                    cur == w(out[i].period)
                IN  IF prev # 0 THEN out[i].weight = Frac(cur - prev, prev)
                    ELSE ~IsFinite(out[i].weight)

\* C10: analyze_basket with var=True returns one row per period left by the filters, in
\* ascending period order; the first value is undefined (NaN) and each later one is
\* (w(p_i) - w(p_i-1)) / w(p_i-1) for the period just before it in the result; no error.
C10_BasketVariation ==
    [][(last = NoCall /\ last' # NoCall /\ last'.op = "analyze_basket")
        => C10_Holds(data, last')]_vars

\* C10 happens: a three-period series whose two variations are finite and differ from
\* the change since the first period
C10_Witness ==
    /\ IsCall("analyze_basket") /\ last.var /\ last.err = NoError
    /\ Len(last.out) = 3
    /\ IsFinite(last.out[2].weight) /\ last.out[2].weight # FZero
    /\ IsFinite(last.out[3].weight) /\ last.out[3].weight # FZero

\* the suppliers of country_to in the selected period
SuppliersOf(rows, country_to, period) ==
    {r.source : r \in {x \in ShockSelection(rows, period, None) : x.target = country_to}}

\* C11: in every successful simulation with the product omitted the attached result has
\* exactly one row per supplier (distinct source) of country_to in the selected period,
\* also when a supplier has rows for several products.
C11_OneRowPerSupplier ==
    (IsCall("simulate_shock") /\ last.err = NoError /\ ~Truthy(last.product)) =>
        /\ simulation = last.out
        /\ Len(simulation) = Cardinality(SuppliersOf(data, last.country_to, last.period))
        /\ \A i, j \in 1..Len(simulation) :
              i # j => simulation[i].source # simulation[j].source

\* C12: calculate_node_metrics on an undirected graph raises nothing and returns one
\* record per node, with In Degree and Out Degree None and Degree produced.
C12_UndirectedMetrics ==
    (IsCall("calculate_node_metrics") /\ ~last.G.directed) =>
        /\ last.err = NoError
        /\ MapSeq(last.out, LAMBDA r : r.Node) = last.G.nodes
        /\ \A i \in 1..Len(last.out) :
              /\ last.out[i].InDegree = None
              /\ last.out[i].OutDegree = None
              /\ last.out[i].Degree # None

====
